---- MODULE Spec2Model ----
(***************************************************************************)
(* Model of the adapter layer of lit-analyzer:                             *)
(*   - VscodeCssService and its LitVscodeCSSDataProvider                   *)
(*       (src/diagnostics/lit-css/vscode-css-service.ts)                   *)
(*   - completionsAtOffset                                                 *)
(*       (src/diagnostics/lit-html/completion/completions-at-offset.ts)    *)
(*   - getHtmlData (get-html-data)                                         *)
(* The external language services are modelled by the values they hand     *)
(* back, drawn from bounded sets; the adapter code is modelled step by     *)
(* step.  A handler runs from an idle host (op = "none"); Return models    *)
(* the host consuming the result, after which only object fields survive.  *)
(***************************************************************************)
EXTENDS Integers, Sequences, FiniteSets, TLC

VARIABLES
    pseudoElementData,  \* LitVscodeCSSDataProvider.pseudoElementData
    cssCall,            \* the VscodeCssService call just completed: its arguments,
                        \* the answer of the underlying service, the data the
                        \* provider handed to it, the array update() replaced,
                        \* and the handler's result
    completionCall,     \* the completionsAtOffset call just completed
    htmlDataCall        \* the getHtmlData call just completed

vars == <<pseudoElementData, cssCall, completionCall, htmlDataCall>>

\* JavaScript undefined / null (the code only ever compares with == null), where
\* a string, an object and a text (a sequence of characters) is expected.
Undefined == "undefined"
UndefinedObject == [undefined |-> TRUE]
UndefinedText == <<"undefined">>

---------------------------------------------------------------------------
\* Bounds of the model.
MaxTextLen == 2     \* characters in a virtual CSS document
MaxDiags == 2       \* diagnostics returned by one doValidation
MaxTags == 2        \* global tags in a store
MaxContents == 2    \* entries of hover.contents
MaxItems == 1       \* items of one completion list

SeqsUpTo(S, n) == UNION {[1..k -> S] : k \in 0..n}

Min(a, b) == IF a < b THEN a ELSE b
Max(a, b) == IF a > b THEN a ELSE b

---------------------------------------------------------------------------
\* vscode.TextDocument, as created by makeVscTextDocument.  A text is a
\* sequence of characters; "\n" is the only line break drawn.
Chars == {"x", "\n"}
Texts == SeqsUpTo(Chars, MaxTextLen)

RECURSIVE computeLineOffsets(_, _)
computeLineOffsets(text, i) ==
    IF i > Len(text) THEN <<>>
    ELSE (IF text[i] = "\n" THEN <<i>> ELSE <<>>) \o computeLineOffsets(text, i + 1)

\* lineOffsets(text)[l + 1] is the offset at which (0-based) line l starts.
lineOffsets(text) == <<0>> \o computeLineOffsets(text, 1)

lineCount(text) == Len(lineOffsets(text))

positionAt(text, offset) ==
    LET o == Max(Min(offset, Len(text)), 0)
        offs == lineOffsets(text)
        line == CHOOSE l \in 0..(Len(offs) - 1) :
                    /\ offs[l + 1] <= o
                    /\ \A m \in 0..(Len(offs) - 1) : offs[m + 1] <= o => m <= l
    IN [line |-> line, character |-> o - offs[line + 1]]

offsetAt(text, position) ==
    LET offs == lineOffsets(text)
    IN IF position.line >= Len(offs) THEN Len(text)
       ELSE IF position.line < 0 THEN 0
       ELSE LET lineOffset == offs[position.line + 1]
                nextLineOffset == IF position.line + 1 < Len(offs)
                                  THEN offs[position.line + 2]
                                  ELSE Len(text)
            IN Max(Min(lineOffset + position.character, nextLineOffset), lineOffset)

---------------------------------------------------------------------------
\* TsLitPluginStore.getGlobalTags(): the tags of a store, in iteration order.
GlobalTags ==
    { [tagName |-> "my-element", description |-> "first", builtIn |-> FALSE],
      [tagName |-> "div", description |-> "block", builtIn |-> TRUE],
      [tagName |-> "x-button", description |-> "second", builtIn |-> FALSE] }

Stores == SeqsUpTo(GlobalTags, MaxTags)

\* LitVscodeCSSDataProvider.update: the new value of pseudoElementData.
updateAccumulating(store) ==
    pseudoElementData \o
    [i \in 1..Len(SelectSeq(store, LAMBDA tag : ~tag.builtIn)) |->
        LET tag == SelectSeq(store, LAMBDA t : ~t.builtIn)[i]
        IN [browsers |-> <<>>, description |-> tag.description,
            name |-> tag.tagName, status |-> "standard"]]

update(store) ==
    LET custom == SelectSeq(store, LAMBDA tag : ~tag.builtIn)
    IN [i \in 1..Len(custom) |->
          [browsers |-> <<>>,
           description |-> custom[i].description,
           name |-> custom[i].tagName,
           status |-> "standard"]]

\* LitVscodeCSSDataProvider.customDataProvider: what the four provide*
\* methods return when the language service asks, given the field's value.
customDataProvider(data) ==
    [pseudoElements |-> data,
     atDirectives |-> <<>>,
     pseudoClasses |-> <<>>,
     properties |-> <<>>]

---------------------------------------------------------------------------
\* scssService.doValidation: the diagnostics the underlying CSS validation can
\* report for a text (it returns a list of them).
\* The service reports a marker by its offsets in the document and converts
\* them with document.positionAt, so every range lies inside the document.
DiagnosticKinds ==
    { [severity |-> "Error", message |-> "semicolon expected"],
      [severity |-> "Warning", message |-> "unknown property"],
      [severity |-> "Information", message |-> "vendor prefix"],
      [severity |-> "Hint", message |-> "zero units"],
      [severity |-> Undefined, message |-> "empty rules"] }

rangeAt(text, offset) ==
    [start |-> positionAt(text, offset),
     end |-> positionAt(text, Min(offset + 1, Len(text)))]

doValidation(text) ==
    { [range |-> rangeAt(text, o), severity |-> k.severity, message |-> k.message] :
        o \in 0..Len(text), k \in DiagnosticKinds }

\* The filter of getDiagnostics (line 35).
diagnosticFilterKeepsLastLine(vscTextDocument, diagnostic) ==
    /\ diagnostic.range.start.line # 0
    /\ diagnostic.range.start.line <= lineCount(vscTextDocument) - 1

diagnosticFilter(vscTextDocument, diagnostic) ==
    /\ diagnostic.range.start.line # 0
    /\ diagnostic.range.start.line < lineCount(vscTextDocument) - 1

\* The map of getDiagnostics (lines 36-46).
diagnosticMapSeverityInverted(vscTextDocument, diagnostic) ==
    [severity |-> IF diagnostic.severity = "Warning" THEN "warning" ELSE "error",
     location |-> [start |-> offsetAt(vscTextDocument, diagnostic.range.start),
                   end |-> offsetAt(vscTextDocument, diagnostic.range.end)],
     message |-> diagnostic.message]

diagnosticMap(vscTextDocument, diagnostic) ==
    [severity |-> IF diagnostic.severity = "Error" THEN "error" ELSE "warning",
     location |-> [start |-> offsetAt(vscTextDocument, diagnostic.range.start),
                   end |-> offsetAt(vscTextDocument, diagnostic.range.end)],
     message |-> diagnostic.message]

\* VscodeCssService.getDiagnostics, with `diagnostics` the validation's answer.
GetDiagnostics(document, store, diagnostics) ==
    LET kept == SelectSeq(diagnostics, LAMBDA d : diagnosticFilter(document, d))
    IN /\ pseudoElementData' = update(store)
       /\ cssCall' = [op |-> "getDiagnostics",
                      store |-> store,
                      replaced |-> pseudoElementData,
                      document |-> document,
                      underlying |-> diagnostics,
                      provided |-> customDataProvider(pseudoElementData'),
                      result |-> [i \in 1..Len(kept) |-> diagnosticMap(document, kept[i])]]
       /\ UNCHANGED <<completionCall, htmlDataCall>>

---------------------------------------------------------------------------
\* scssService.doHover.  A text is a sequence of characters, so that the
\* template string of line 67 is a concatenation.
MarkedStrings ==
    { [form |-> "string", language |-> Undefined, value |-> <<"s">>],
      [form |-> "code", language |-> "html", value |-> <<"h">>],
      [form |-> "code", language |-> "css", value |-> <<"c">>] }

MarkupContents == { [form |-> "markup", language |-> Undefined, value |-> <<"m">>] }

HoverContents ==
    { [isArray |-> TRUE, items |-> s] : s \in SeqsUpTo(MarkedStrings, MaxContents) }
    \cup { [isArray |-> FALSE, item |-> c] : c \in MarkedStrings \cup MarkupContents }

doHover(text, vscPosition) ==
    {UndefinedObject}
    \cup { [range |-> r, contents |-> c] :
             r \in {UndefinedObject, rangeAt(text, offsetAt(text, vscPosition))},
             c \in HoverContents }

\* The loop of getQuickInfo (lines 62-72) over contents[i..], from the values
\* primaryInfo and secondaryInfo have before entry i.
RECURSIVE quickInfoLoop(_, _, _, _)
quickInfoLoop(contents, i, primaryInfo, secondaryInfo) ==
    IF i > Len(contents) THEN [primaryInfo |-> primaryInfo, secondaryInfo |-> secondaryInfo]
    ELSE LET content == contents[i]
             text == content.value
         IN IF content.form = "code"
            THEN IF content.language = "html"
                 THEN quickInfoLoop(contents, i + 1,
                        (IF primaryInfo = UndefinedText THEN <<>> ELSE <<"\n", "\n">>) \o text,
                        secondaryInfo)
                 ELSE quickInfoLoop(contents, i + 1, primaryInfo, secondaryInfo)
            ELSE quickInfoLoop(contents, i + 1, primaryInfo, text)

getQuickInfoResult(vscTextDocument, hover) ==
    IF hover = UndefinedObject THEN UndefinedObject
    ELSE IF hover.range = UndefinedObject THEN UndefinedObject
    ELSE LET contents == IF hover.contents.isArray THEN hover.contents.items
                         ELSE <<hover.contents.item>>
             info == quickInfoLoop(contents, 1, UndefinedText, UndefinedText)
         IN [primaryInfo |-> IF info.primaryInfo = UndefinedText THEN <<>> ELSE info.primaryInfo,
             secondaryInfo |-> info.secondaryInfo,
             range |-> [start |-> offsetAt(vscTextDocument, hover.range.start),
                        end |-> offsetAt(vscTextDocument, hover.range.end)]]

\* VscodeCssService.getQuickInfo, with `hover` the hover service's answer.
GetQuickInfo(document, offset, store, hover) ==
    /\ pseudoElementData' = update(store)
    /\ cssCall' = [op |-> "getQuickInfo",
                   store |-> store,
                   replaced |-> pseudoElementData,
                   document |-> document,
                   offset |-> offset,
                   underlying |-> hover,
                   provided |-> customDataProvider(pseudoElementData'),
                   result |-> getQuickInfoResult(document, hover)]
    /\ UNCHANGED <<completionCall, htmlDataCall>>

---------------------------------------------------------------------------
\* vscode.CompletionItemKind, by member name.
CompletionItemKinds ==
    { "Text", "Method", "Function", "Constructor", "Field", "Variable", "Class",
      "Interface", "Module", "Property", "Unit", "Value", "Enum", "Keyword",
      "Snippet", "Color", "File", "Reference", "Folder", "EnumMember", "Constant",
      "Struct", "Event", "Operator", "TypeParameter" }

\* The values translateCompletionItemKind and getCompletions produce where a
\* LitCompletionKind is required.
LitCompletionKinds ==
    { "memberFunctionElement", "functionElement", "constructorImplementationElement",
      "variableElement", "classElement", "interfaceElement", "moduleElement",
      "memberVariableElement", "constElement", "enumElement", "keyword", "alias",
      "unknown" }

translateCompletionItemKindColorFallsThrough(kind) ==
    CASE kind = "Method" -> "memberFunctionElement"
      [] kind = "Function" -> "functionElement"
      [] kind = "Constructor" -> "constructorImplementationElement"
      [] kind \in {"Field", "Variable"} -> "variableElement"
      [] kind = "Class" -> "classElement"
      [] kind = "Interface" -> "interfaceElement"
      [] kind = "Module" -> "moduleElement"
      [] kind = "Property" -> "memberVariableElement"
      [] kind \in {"Unit", "Value"} -> "constElement"
      [] kind = "Enum" -> "enumElement"
      [] kind = "Keyword" -> "keyword"
      [] kind \in {"Color", "Reference"} -> "alias"
      [] kind = "File" -> "moduleElement"
      [] OTHER -> "unknown"

translateCompletionItemKind(kind) ==
    CASE kind = "Method" -> "memberFunctionElement"
      [] kind = "Function" -> "functionElement"
      [] kind = "Constructor" -> "constructorImplementationElement"
      [] kind \in {"Field", "Variable"} -> "variableElement"
      [] kind = "Class" -> "classElement"
      [] kind = "Interface" -> "interfaceElement"
      [] kind = "Module" -> "moduleElement"
      [] kind = "Property" -> "memberVariableElement"
      [] kind \in {"Unit", "Value"} -> "constElement"
      [] kind = "Enum" -> "enumElement"
      [] kind = "Keyword" -> "keyword"
      [] kind = "Color" -> "constElement"
      [] kind = "Reference" -> "alias"
      [] kind = "File" -> "moduleElement"
      [] kind \in {"Snippet", "Text"} -> "unknown"
      [] OTHER -> "unknown"

\* String.prototype.startsWith on a one-character prefix.
startsWith(label, prefix) == Len(label) > 0 /\ label[1] = prefix

\* cssService.doComplete: labels with each of the prefixes line 99 tests,
\* each with one of the three shapes of CompletionItem.documentation.
CompletionItemShapes ==
    { [label |-> <<"@", "m">>, documentation |-> UndefinedObject],
      [label |-> <<"-", "w">>, documentation |-> [isString |-> TRUE, value |-> "vendor"]],
      [label |-> <<":", "h">>, documentation |-> [isString |-> FALSE, value |-> "markup"]],
      [label |-> <<"r">>, documentation |-> [isString |-> TRUE, value |-> "plain"]] }

doComplete(kinds) ==
    SeqsUpTo({ [kind |-> k, label |-> sh.label, documentation |-> sh.documentation] :
                 k \in kinds, sh \in CompletionItemShapes }, MaxItems)

\* The map of getCompletions (lines 92-102); documentation is the value the
\* lazy thunk yields.
completionMap(i) ==
    [kind |-> IF i.kind = Undefined THEN "unknown" ELSE translateCompletionItemKind(i.kind),
     insert |-> i.label,
     name |-> i.label,
     kindModifiers |-> IF i.kind = "Color" THEN "color" ELSE Undefined,
     importance |-> IF startsWith(i.label, "@") \/ startsWith(i.label, "-") THEN "low"
                    ELSE IF startsWith(i.label, ":") THEN "medium" ELSE "high",
     documentation |-> IF i.documentation = UndefinedObject THEN Undefined
                       ELSE i.documentation.value]

\* VscodeCssService.getCompletions, with `items` the completion service's answer.
GetCompletions(document, offset, store, items) ==
    /\ pseudoElementData' = update(store)
    /\ cssCall' = [op |-> "getCompletions",
                   store |-> store,
                   replaced |-> pseudoElementData,
                   document |-> document,
                   offset |-> offset,
                   underlying |-> items,
                   provided |-> customDataProvider(pseudoElementData'),
                   result |-> [n \in 1..Len(items) |-> completionMap(items[n])]]
    /\ UNCHANGED <<completionCall, htmlDataCall>>

\* No call of the service is in progress and no result is held.
NoCall == [op |-> "none"]

\* The host takes the result of the call; the data provider keeps its field.
CssReturn ==
    /\ cssCall.op # "none"
    /\ cssCall' = NoCall
    /\ UNCHANGED <<pseudoElementData, completionCall, htmlDataCall>>

---------------------------------------------------------------------------
\* completionsAtOffset.  The document queries and the completion sources are
\* other modules; their answers are drawn from the sets below.
MaxEntries == 2     \* completions returned by one completion source

HtmlNodes == {"node-input", "node-my-element"}

NameLocations == { [start |-> 7, end |-> 9], [start |-> 12, end |-> 20] }

\* document.htmlAttrNameAtOffset(offset)
AttrNameAnswers ==
    {UndefinedObject}
    \cup { [htmlNode |-> n, location |-> [name |-> r]] : n \in HtmlNodes, r \in NameLocations }

\* document.htmlAttrAssignmentAtOffset(offset)
AttrAssignmentAnswers == {UndefinedObject, [htmlAttr |-> "value"]}

\* document.htmlAttrAreaAtOffset(offset)
AttrAreaAnswers == {Undefined} \cup HtmlNodes

\* getPositionContextInDocument(document, offset)
PositionContexts == { [beforeWord |-> w] : w \in {"<", "<di", ""} }

\* A LitCompletion as a completion source returns it; range is optional.
CompletionEntries ==
    { [name |-> n, kind |-> "label", range |-> r] :
        n \in {"disabled", "value"}, r \in {UndefinedObject, [start |-> 0, end |-> 3]} }

CompletionAnswers == SeqsUpTo(CompletionEntries, MaxEntries)

\* The if/else chain of lines 20-36: which source is called, with what.
completionSourceAreaFirst(intersectingAttr, intersectingAttrAssignment, intersectingAttrAreaNode, positionContext) ==
    IF intersectingAttr # UndefinedObject
    THEN [source |-> "completionsForHtmlAttrs", argument |-> intersectingAttr.htmlNode]
    ELSE IF intersectingAttrAreaNode # Undefined
    THEN [source |-> "completionsForHtmlAttrs", argument |-> intersectingAttrAreaNode]
    ELSE IF intersectingAttrAssignment # UndefinedObject
    THEN [source |-> "completionsForHtmlAttrValues", argument |-> intersectingAttrAssignment]
    ELSE IF positionContext.beforeWord = "<"
    THEN [source |-> "completionsForHtmlNodes", argument |-> positionContext]
    ELSE UndefinedObject

completionSource(intersectingAttr, intersectingAttrAssignment, intersectingAttrAreaNode, positionContext) ==
    IF intersectingAttr # UndefinedObject
    THEN [source |-> "completionsForHtmlAttrs", argument |-> intersectingAttr.htmlNode]
    ELSE IF intersectingAttrAssignment # UndefinedObject
    THEN [source |-> "completionsForHtmlAttrValues", argument |-> intersectingAttrAssignment]
    ELSE IF intersectingAttrAreaNode # Undefined
    THEN [source |-> "completionsForHtmlAttrs", argument |-> intersectingAttrAreaNode]
    ELSE IF positionContext.beforeWord = "<"
    THEN [source |-> "completionsForHtmlNodes", argument |-> positionContext]
    ELSE UndefinedObject

\* The map of lines 24-27.
overwriteRangeKeepsExisting(entries, intersectingAttr) ==
    [i \in 1..Len(entries) |->
        IF entries[i].range = UndefinedObject
        THEN [entries[i] EXCEPT !.range = intersectingAttr.location.name]
        ELSE entries[i]]

overwriteRange(entries, intersectingAttr) ==
    [i \in 1..Len(entries) |-> [entries[i] EXCEPT !.range = intersectingAttr.location.name]]

\* completionsAtOffset, with `answer` what the source it calls returns.
CompletionsAtOffset(intersectingAttr, intersectingAttrAssignment, intersectingAttrAreaNode, positionContext, answer) ==
    LET chosen == completionSource(intersectingAttr, intersectingAttrAssignment,
                                   intersectingAttrAreaNode, positionContext)
    IN /\ chosen = UndefinedObject => answer = <<>>
       /\ completionCall' =
            [op |-> "completionsAtOffset",
             intersectingAttr |-> intersectingAttr,
             intersectingAttrAssignment |-> intersectingAttrAssignment,
             intersectingAttrAreaNode |-> intersectingAttrAreaNode,
             positionContext |-> positionContext,
             consulted |-> IF chosen = UndefinedObject THEN <<>>
                           ELSE <<[source |-> chosen.source,
                                   argument |-> chosen.argument,
                                   returned |-> answer]>>,
             result |-> IF chosen = UndefinedObject THEN <<>>
                        ELSE IF intersectingAttr # UndefinedObject
                        THEN overwriteRange(answer, intersectingAttr)
                        ELSE answer]
       /\ UNCHANGED <<pseudoElementData, cssCall, htmlDataCall>>

CompletionsAtOffsetCall ==
    /\ completionCall.op = "none"
    /\ \E intersectingAttr \in AttrNameAnswers,
          intersectingAttrAssignment \in AttrAssignmentAnswers,
          intersectingAttrAreaNode \in AttrAreaAnswers,
          positionContext \in PositionContexts,
          answer \in CompletionAnswers :
            CompletionsAtOffset(intersectingAttr, intersectingAttrAssignment,
                                intersectingAttrAreaNode, positionContext, answer)

CompletionsAtOffsetReturn ==
    /\ completionCall.op # "none"
    /\ completionCall' = NoCall
    /\ UNCHANGED <<pseudoElementData, cssCall, htmlDataCall>>

---------------------------------------------------------------------------
\* getHtmlData.  parseHtmlData and html5TagAttrType are other modules; the
\* parsed standard data and the attribute type table are drawn from the sets
\* below.  A SimpleType is represented by its kind.
MaxStandard == 2    \* standard tags, and standard global attributes, parsed
MaxConfig == 2      \* names in config.globalHtmlTags / config.globalHtmlAttributes

StandardTags ==
    { [name |-> "a", description |-> "anchor", hasDeclaration |-> Undefined,
       attributes |-> <<[name |-> "href", type |-> [kind |-> "ANY"]]>>],
      [name |-> "input", description |-> "input", hasDeclaration |-> Undefined,
       attributes |-> <<[name |-> "value", type |-> [kind |-> "STRING"]],
                        [name |-> "disabled", type |-> [kind |-> "ANY"]]>>],
      [name |-> "p", description |-> "paragraph", hasDeclaration |-> Undefined,
       attributes |-> <<>>] }

StandardGlobalAttrs ==
    { [name |-> "id", type |-> [kind |-> "ANY"]],
      [name |-> "onclick", type |-> [kind |-> "STRING"]] }

\* parseHtmlData({tags: HTML5_TAGS, globalAttributes: [...], ...})
ParsedHtmlData ==
    { [tags |-> t, globalAttrs |-> g] :
        t \in SeqsUpTo(StandardTags, MaxStandard),
        g \in SeqsUpTo(StandardGlobalAttrs, MaxStandard) }

Configs ==
    { [globalHtmlTags |-> t, globalHtmlAttributes |-> a] :
        t \in SeqsUpTo({"my-element", "svg"}, MaxConfig),
        a \in SeqsUpTo({"my-attr", "id"}, MaxConfig) }

\* html5TagAttrType, as a table from attribute name to type.
AttrNames == {"href", "value", "disabled", "id", "onclick", "my-attr"}

AttrTypeTables ==
    { [n \in AttrNames |-> [kind |-> "ANY"]],
      [n \in AttrNames |-> IF n \in {"href", "id", "my-attr"} THEN [kind |-> "STRING"]
                           ELSE IF n = "disabled" THEN [kind |-> "BOOLEAN"]
                           ELSE [kind |-> "ANY"]] }

\* result.tags.push({ attributes: [], name: "svg", ... }) (lines 16-21)
pushSvg(tags) ==
    Append(tags, [name |-> "svg", description |-> "", hasDeclaration |-> FALSE,
                  attributes |-> <<>>])

\* result.tags.push(...config.globalHtmlTags.map(...)) (lines 23-31)
pushGlobalHtmlTagsSkippingKnown(tags, config) ==
    tags \o [i \in 1..Len(SelectSeq(config.globalHtmlTags,
                                    LAMBDA n : \A k \in 1..Len(tags) : tags[k].name # n)) |->
               [name |-> SelectSeq(config.globalHtmlTags,
                                   LAMBDA n : \A k \in 1..Len(tags) : tags[k].name # n)[i],
                description |-> Undefined, hasDeclaration |-> Undefined,
                attributes |-> <<>>]]

pushGlobalHtmlTags(tags, config) ==
    tags \o [i \in 1..Len(config.globalHtmlTags) |->
               [name |-> config.globalHtmlTags[i],
                description |-> Undefined, hasDeclaration |-> Undefined,
                attributes |-> <<>>]]

\* result.globalAttrs.push(...config.globalHtmlAttributes.map(...)) (lines 33-41)
pushGlobalHtmlAttributes(globalAttrs, config) ==
    globalAttrs \o [i \in 1..Len(config.globalHtmlAttributes) |->
                      [name |-> config.globalHtmlAttributes[i], type |-> [kind |-> "ANY"]]]

\* The attribute map of lines 47-53 and 56-60.
refineAttrType(attr, html5TagAttrType) ==
    [attr EXCEPT !.type = IF attr.type.kind = "ANY" THEN html5TagAttrType[attr.name]
                          ELSE attr.type]

\* The returned object (lines 43-62).
getHtmlDataResult(tags, globalAttrs, html5TagAttrType) ==
    [tags |-> [i \in 1..Len(tags) |->
                 [tags[i] EXCEPT !.attributes =
                     [j \in 1..Len(tags[i].attributes) |->
                         refineAttrType(tags[i].attributes[j], html5TagAttrType)]]],
     globalAttrs |-> [i \in 1..Len(globalAttrs) |->
                        refineAttrType(globalAttrs[i], html5TagAttrType)]]

GetHtmlData(config, parsed, html5TagAttrType) ==
    LET tags == pushGlobalHtmlTags(pushSvg(parsed.tags), config)
        globalAttrs == pushGlobalHtmlAttributes(parsed.globalAttrs, config)
    IN /\ htmlDataCall' = [op |-> "getHtmlData",
                           config |-> config,
                           parsed |-> parsed,
                           html5TagAttrType |-> html5TagAttrType,
                           result |-> getHtmlDataResult(tags, globalAttrs, html5TagAttrType)]
       /\ UNCHANGED <<pseudoElementData, cssCall, completionCall>>

GetHtmlDataCall ==
    /\ htmlDataCall.op = "none"
    /\ \E config \in Configs, parsed \in ParsedHtmlData, html5TagAttrType \in AttrTypeTables :
          GetHtmlData(config, parsed, html5TagAttrType)

GetHtmlDataReturn ==
    /\ htmlDataCall.op # "none"
    /\ htmlDataCall' = NoCall
    /\ UNCHANGED <<pseudoElementData, cssCall, completionCall>>

---------------------------------------------------------------------------
\* After construction: new LitVscodeCSSDataProvider() holds no pseudo
\* elements, and nothing has been called.
Init ==
    /\ pseudoElementData = <<>>
    /\ cssCall = NoCall
    /\ completionCall = NoCall
    /\ htmlDataCall = NoCall

\* Reduced input sets, for the handlers a specification is not about.
FewStores ==
    { <<>>,
      <<[tagName |-> "div", description |-> "block", builtIn |-> TRUE],
        [tagName |-> "my-element", description |-> "first", builtIn |-> FALSE]>> }

FewTexts == { <<"x">>, <<"x", "\n">> }

FewKinds == {Undefined, "Color", "Method"}

AllKinds == CompletionItemKinds \cup {Undefined}

\* The three handlers of VscodeCssService, over given input sets.
GetDiagnosticsOver(stores, texts, maxDiags) ==
    /\ cssCall.op = "none"
    /\ \E store \in stores, document \in texts :
         \E diagnostics \in SeqsUpTo(doValidation(document), maxDiags) :
            GetDiagnostics(document, store, diagnostics)

GetQuickInfoOver(stores, texts) ==
    /\ cssCall.op = "none"
    /\ \E store \in stores, document \in texts :
         \E offset \in 0..Len(document) :
            \E hover \in doHover(document, positionAt(document, offset)) :
               GetQuickInfo(document, offset, store, hover)

GetCompletionsOver(stores, texts, kinds) ==
    /\ cssCall.op = "none"
    /\ \E store \in stores, document \in texts :
         \E offset \in 0..Len(document), items \in doComplete(kinds) :
            GetCompletions(document, offset, store, items)

\* The data provider across calls with arbitrary stores.
ProviderGetDiagnostics == GetDiagnosticsOver(Stores, FewTexts, 1)
ProviderGetQuickInfo == GetQuickInfoOver(Stores, FewTexts)
ProviderGetCompletions == GetCompletionsOver(Stores, FewTexts, FewKinds)

ProviderNext ==
    \/ ProviderGetDiagnostics
    \/ ProviderGetQuickInfo
    \/ ProviderGetCompletions
    \/ CssReturn

SpecProvider == Init /\ [][ProviderNext]_vars

\* getDiagnostics over every document and every validation answer.
DiagnosticsGetDiagnostics == GetDiagnosticsOver(FewStores, Texts, MaxDiags)
DiagnosticsGetQuickInfo == GetQuickInfoOver(FewStores, FewTexts)
DiagnosticsGetCompletions == GetCompletionsOver(FewStores, FewTexts, FewKinds)

DiagnosticsNext ==
    \/ DiagnosticsGetDiagnostics
    \/ DiagnosticsGetQuickInfo
    \/ DiagnosticsGetCompletions
    \/ CssReturn

SpecDiagnostics == Init /\ [][DiagnosticsNext]_vars

\* getCompletions over every completion item kind.
KindsGetDiagnostics == GetDiagnosticsOver(FewStores, FewTexts, 1)
KindsGetQuickInfo == GetQuickInfoOver(FewStores, FewTexts)
KindsGetCompletions == GetCompletionsOver(FewStores, FewTexts, AllKinds)

KindsNext ==
    \/ KindsGetDiagnostics
    \/ KindsGetQuickInfo
    \/ KindsGetCompletions
    \/ CssReturn

SpecCompletionKinds == Init /\ [][KindsNext]_vars

\* completionsAtOffset.
CompletionsAtOffsetNext ==
    \/ CompletionsAtOffsetCall
    \/ CompletionsAtOffsetReturn

SpecCompletionsAtOffset == Init /\ [][CompletionsAtOffsetNext]_vars

\* getHtmlData.
HtmlDataNext ==
    \/ GetHtmlDataCall
    \/ GetHtmlDataReturn

SpecHtmlData == Init /\ [][HtmlDataNext]_vars

---------------------------------------------------------------------------
\* Properties.

\* The k-th smallest element of a finite set of integers.
Nth(S, k) == CHOOSE i \in S : Cardinality({j \in S : j <= i}) = k

\* C1: getHtmlData returns the parsed standard tags in their order (only the
\* ANY types of their attributes refined), then one tag "svg" without
\* attributes, then one tag without attributes per name of
\* config.globalHtmlTags in config order; and the parsed standard global
\* attributes in their order, then one attribute per name of
\* config.globalHtmlAttributes in config order.
AttrNamesOf(attrs) == [j \in 1..Len(attrs) |-> attrs[j].name]

TagShape(tag) == [tag EXCEPT !.attributes = AttrNamesOf(tag.attributes)]

HtmlDataOverlay ==
    htmlDataCall.op = "getHtmlData" =>
        LET r == htmlDataCall.result
            p == htmlDataCall.parsed
            c == htmlDataCall.config
            n == Len(p.tags)
            g == Len(p.globalAttrs)
        IN /\ Len(r.tags) = n + 1 + Len(c.globalHtmlTags)
           /\ \A i \in 1..n :
                /\ TagShape(r.tags[i]) = TagShape(p.tags[i])
                /\ \A j \in 1..Len(p.tags[i].attributes) :
                      p.tags[i].attributes[j].type.kind # "ANY"
                         => r.tags[i].attributes[j] = p.tags[i].attributes[j]
           /\ r.tags[n + 1].name = "svg"
           /\ r.tags[n + 1].attributes = <<>>
           /\ \A j \in 1..Len(c.globalHtmlTags) :
                /\ r.tags[n + 1 + j].name = c.globalHtmlTags[j]
                /\ r.tags[n + 1 + j].attributes = <<>>
           /\ Len(r.globalAttrs) = g + Len(c.globalHtmlAttributes)
           /\ \A i \in 1..g : r.globalAttrs[i].name = p.globalAttrs[i].name
           /\ \A j \in 1..Len(c.globalHtmlAttributes) :
                r.globalAttrs[g + j].name = c.globalHtmlAttributes[j]

\* A call with two standard tags, two standard global attributes, a config
\* naming "svg" again and a second custom tag, and two custom attributes.
HtmlDataOverlayWitness ==
    /\ htmlDataCall.op = "getHtmlData"
    /\ Len(htmlDataCall.parsed.tags) = 2
    /\ Len(htmlDataCall.parsed.globalAttrs) = 2
    /\ htmlDataCall.config.globalHtmlTags = <<"svg", "my-element">>
    /\ htmlDataCall.config.globalHtmlAttributes = <<"id", "my-attr">>
    /\ Len(htmlDataCall.result.tags) = 5
    /\ Len(htmlDataCall.result.globalAttrs) = 4

\* C2: during every call of the service the provider's pseudo elements are
\* exactly the non-built-in global tags of that call's store, one entry per
\* tag in the same order (name, description, status "standard"), whatever the
\* provider held before; at-directives, pseudo-classes and properties are
\* empty.
ProviderMatchesStore ==
    cssCall.op # "none" =>
        LET store == cssCall.store
            custom == {i \in 1..Len(store) : ~store[i].builtIn}
            pe == cssCall.provided.pseudoElements
        IN /\ Len(pe) = Cardinality(custom)
           /\ \A k \in 1..Len(pe) :
                /\ pe[k].name = store[Nth(custom, k)].tagName
                /\ pe[k].description = store[Nth(custom, k)].description
                /\ pe[k].status = "standard"
           /\ pseudoElementData = pe
           /\ cssCall.provided.atDirectives = <<>>
           /\ cssCall.provided.pseudoClasses = <<>>
           /\ cssCall.provided.properties = <<>>

\* A call whose store mixes a built-in tag with a custom one, made when the
\* provider held the custom tags of a different, earlier store.
ProviderMatchesStoreWitness ==
    /\ cssCall.op = "getCompletions"
    /\ Len(cssCall.store) = 2
    /\ cssCall.store[1].builtIn
    /\ ~cssCall.store[2].builtIn
    /\ Len(cssCall.replaced) = 2
    /\ cssCall.replaced[1].name # cssCall.store[2].tagName
    /\ Len(cssCall.provided.pseudoElements) = 1


\* C3: when the offset intersects an attribute name, the result is what
\* completionsForHtmlAttrs returned for that attribute's node, entry by entry
\* in the same order, each with its range replaced by the attribute's name
\* location and every other field unchanged.
AttrNameOverwritesRange ==
    (completionCall.op = "completionsAtOffset"
        /\ completionCall.intersectingAttr # UndefinedObject) =>
        LET attr == completionCall.intersectingAttr
            r == completionCall.result
        IN /\ Len(completionCall.consulted) = 1
           /\ completionCall.consulted[1].source = "completionsForHtmlAttrs"
           /\ completionCall.consulted[1].argument = attr.htmlNode
           /\ Len(r) = Len(completionCall.consulted[1].returned)
           /\ \A i \in 1..Len(r) :
                LET entry == completionCall.consulted[1].returned[i]
                IN /\ r[i].range = attr.location.name
                   /\ r[i].name = entry.name
                   /\ r[i].kind = entry.kind
                   /\ DOMAIN r[i] = DOMAIN entry

\* Two entries came back for the attribute's node, one without a range and
\* one carrying a range of its own that differs from the name location.
AttrNameOverwritesRangeWitness ==
    /\ completionCall.op = "completionsAtOffset"
    /\ completionCall.intersectingAttr # UndefinedObject
    /\ Len(completionCall.result) = 2
    /\ completionCall.consulted[1].returned[1].range = UndefinedObject
    /\ completionCall.consulted[1].returned[2].range # UndefinedObject
    /\ completionCall.consulted[1].returned[2].range
          # completionCall.intersectingAttr.location.name
    /\ completionCall.consulted[1].returned[1].name
          # completionCall.consulted[1].returned[2].name

\* C4: exactly one completion source is consulted, by fixed priority:
\* attribute name, then attribute assignment, then attribute area (ranges
\* left as returned), then tag names when the word before the offset is "<";
\* otherwise no source is consulted and the result is empty.
CompletionSourcePriority ==
    completionCall.op = "completionsAtOffset" =>
        LET attr == completionCall.intersectingAttr
            assignment == completionCall.intersectingAttrAssignment
            area == completionCall.intersectingAttrAreaNode
            ctx == completionCall.positionContext
            consulted == completionCall.consulted
        IN /\ Len(consulted) <= 1
           /\ attr # UndefinedObject =>
                /\ Len(consulted) = 1
                /\ consulted[1].source = "completionsForHtmlAttrs"
                /\ consulted[1].argument = attr.htmlNode
           /\ (attr = UndefinedObject /\ assignment # UndefinedObject) =>
                /\ Len(consulted) = 1
                /\ consulted[1].source = "completionsForHtmlAttrValues"
                /\ consulted[1].argument = assignment
                /\ completionCall.result = consulted[1].returned
           /\ (attr = UndefinedObject /\ assignment = UndefinedObject /\ area # Undefined) =>
                /\ Len(consulted) = 1
                /\ consulted[1].source = "completionsForHtmlAttrs"
                /\ consulted[1].argument = area
                /\ completionCall.result = consulted[1].returned
           /\ (attr = UndefinedObject /\ assignment = UndefinedObject /\ area = Undefined
                 /\ ctx.beforeWord = "<") =>
                /\ Len(consulted) = 1
                /\ consulted[1].source = "completionsForHtmlNodes"
                /\ consulted[1].argument = ctx
                /\ completionCall.result = consulted[1].returned
           /\ (attr = UndefinedObject /\ assignment = UndefinedObject /\ area = Undefined
                 /\ ctx.beforeWord # "<") =>
                /\ consulted = <<>>
                /\ completionCall.result = <<>>

\* The offset is in an attribute assignment, in an attribute area and after
\* "<" at once, and the value completions came back non-empty.
CompletionSourcePriorityWitness ==
    /\ completionCall.op = "completionsAtOffset"
    /\ completionCall.intersectingAttr = UndefinedObject
    /\ completionCall.intersectingAttrAssignment # UndefinedObject
    /\ completionCall.intersectingAttrAreaNode # Undefined
    /\ completionCall.positionContext.beforeWord = "<"
    /\ Len(completionCall.result) = 2
    /\ completionCall.consulted[1].source = "completionsForHtmlAttrValues"

\* The number of lines of a text: one more than its line breaks.
LinesOf(text) == Cardinality({i \in 1..Len(text) : text[i] = "\n"}) + 1

\* The offset at which (0-based) line l of a text starts.
LineStart(text, l) ==
    IF l = 0 THEN 0 ELSE Nth({i \in 1..Len(text) : text[i] = "\n"}, l)

\* The underlying diagnostics whose start line is neither the first nor the
\* last line of the document, by index.
InnerDiagnostics ==
    {i \in 1..Len(cssCall.underlying) :
        /\ cssCall.underlying[i].range.start.line # 0
        /\ cssCall.underlying[i].range.start.line # LinesOf(cssCall.document) - 1}

\* C5: getDiagnostics returns exactly the underlying diagnostics whose start
\* line is neither line 0 nor line lineCount - 1, in the validation's order;
\* a document of one or two lines yields none.
DiagnosticsOnInnerLines ==
    cssCall.op = "getDiagnostics" =>
        /\ Len(cssCall.result) = Cardinality(InnerDiagnostics)
        /\ \A k \in 1..Len(cssCall.result) :
              LET d == cssCall.underlying[Nth(InnerDiagnostics, k)]
              IN /\ cssCall.result[k].message = d.message
                 /\ cssCall.result[k].location.start
                       = LineStart(cssCall.document, d.range.start.line)
                            + d.range.start.character
        /\ LinesOf(cssCall.document) <= 2 => cssCall.result = <<>>

\* A three-line document, a diagnostic on its first or last line and one on
\* an inner line: only the inner one is returned.
DiagnosticsOnInnerLinesWitness ==
    /\ cssCall.op = "getDiagnostics"
    /\ LinesOf(cssCall.document) >= 3
    /\ Len(cssCall.underlying) = 2
    /\ cssCall.underlying[1].range.start.line = LinesOf(cssCall.document) - 1
    /\ cssCall.underlying[2].range.start.line = 1
    /\ Len(cssCall.result) = 1

\* C6: a returned diagnostic has severity "error" exactly when the underlying
\* severity is Error and "warning" otherwise; its message is the underlying
\* message; its location is the document offsets of the underlying range's
\* start and end positions.
DiagnosticTranslation ==
    cssCall.op = "getDiagnostics" =>
        /\ Len(cssCall.result) = Cardinality(InnerDiagnostics)
        /\ \A k \in 1..Len(cssCall.result) :
              LET d == cssCall.underlying[Nth(InnerDiagnostics, k)]
                  t == cssCall.result[k]
              IN /\ (t.severity = "error") <=> (d.severity = "Error")
                 /\ t.severity \in {"error", "warning"}
                 /\ d.severity \in {"Warning", "Information", "Hint", Undefined}
                       => t.severity = "warning"
                 /\ t.message = d.message
                 /\ t.location.start
                       = LineStart(cssCall.document, d.range.start.line)
                            + d.range.start.character
                 /\ t.location.end
                       = LineStart(cssCall.document, d.range.end.line)
                            + d.range.end.character

\* Two diagnostics were returned, one from an Error and one from a diagnostic
\* without severity, the first spanning a line break.
DiagnosticTranslationWitness ==
    /\ cssCall.op = "getDiagnostics"
    /\ Len(cssCall.result) = 2
    /\ cssCall.underlying[1].severity = "Error"
    /\ cssCall.underlying[2].severity = Undefined
    /\ cssCall.result[1].severity = "error"
    /\ cssCall.result[2].severity = "warning"
    /\ cssCall.underlying[1].range.end.line > cssCall.underlying[1].range.start.line

\* C7: every completion kind, absent ones included, is translated to a
\* LitCompletionKind; absent and unlisted kinds to "unknown"; Field and
\* Variable to "variableElement"; Unit, Value and Color to "constElement";
\* Module and File to "moduleElement"; kindModifiers is "color" exactly for
\* Color and undefined otherwise.
CompletionKindTranslation ==
    cssCall.op = "getCompletions" =>
        /\ Len(cssCall.result) = Len(cssCall.underlying)
        /\ \A n \in 1..Len(cssCall.result) :
              LET kind == cssCall.underlying[n].kind
                  c == cssCall.result[n]
              IN /\ c.kind \in LitCompletionKinds
                 /\ kind \in {Undefined, "Snippet", "Text", "Folder", "Event", "EnumMember",
                              "Constant", "Struct", "Operator", "TypeParameter"}
                       => c.kind = "unknown"
                 /\ kind \in {"Field", "Variable"} => c.kind = "variableElement"
                 /\ kind \in {"Unit", "Value", "Color"} => c.kind = "constElement"
                 /\ kind \in {"Module", "File"} => c.kind = "moduleElement"
                 /\ (c.kindModifiers = "color") <=> (kind = "Color")
                 /\ kind # "Color" => c.kindModifiers = Undefined

\* A Color item was translated.
CompletionKindTranslationWitness ==
    /\ cssCall.op = "getCompletions"
    /\ Len(cssCall.result) = 1
    /\ cssCall.underlying[1].kind = "Color"
    /\ cssCall.result[1].kind = "constElement"
    /\ cssCall.result[1].kindModifiers = "color"

====
